---- MODULE Spec2Model ----
(***************************************************************************)
(* A model of the dish-distribution engine, of the variety analysis and of *)
(* the plan and shortlist models of the meal-planning repository:          *)
(*   src/meal_planning/core/planning/operations/distribution.py            *)
(*   src/meal_planning/core/planning/operations/analysis.py                *)
(*   src/meal_planning/core/planning/models.py                             *)
(*   src/meal_planning/core/catalogue/enums.py, models.py                  *)
(*   src/meal_planning/services/planning.py, analysis.py                   *)
(*                                                                         *)
(* distribute_dishes is a sequential loop; the model walks through it one  *)
(* pick at a time.  A dish is a record [uid, cuisine, categories]; the uid *)
(* of the i-th dish of an input list is i (identifiers are opaque and the  *)
(* code only compares them, so any list with distinct identifiers is such  *)
(* a list up to renaming).  Scores are kept in half points (twice the      *)
(* float of the code), which makes the 0.5 cuisine bonus an integer.       *)
(***************************************************************************)
EXTENDS Integers, Sequences, FiniteSets, TLC

VARIABLES
    dishes,             \* argument: the input dish list
    weeks,              \* argument
    per_week,           \* argument
    eastern_per_week,   \* argument
    western_per_week,   \* argument
    eastern_dishes,     \* local, line 118
    western_dishes,     \* local, line 118
    used_count,         \* local dict uid -> count, as its items in insertion order
    recently_used,      \* local set of uids placed in the previous week
    week_results,       \* local list of the finished weeks
    week_idx,           \* loop variable of line 127
    week_state,         \* _WeekState of the week being built
    available_eastern,  \* local, line 131
    available_western,  \* local, line 132
    available_all,      \* local, line 134
    k,                  \* iterations done of the current quota loop
    pc,                 \* position in distribute_dishes
    result,             \* the DistributionResult returned (valid when pc = "done")
    calls,              \* number of calls of distribute_dishes started so far
    first,              \* arguments and result of the first finished call
    plan,               \* assess_variety: the weeks of the MealPlan
    catalogue,          \* assess_variety: the dishes argument
    report,             \* assess_variety: the VarietyReport (valid when pc = "assessed")
    suggestions,        \* suggest_improvements: the list returned (valid when pc = "suggested")
    num_weeks,          \* the number of weeks a plan was constructed with
    shortlist,          \* Shortlist: the dish_uids of the receiver of the last call
    before,             \* the receiver of the last call as it was when called
    returned,           \* what the last call returned, or that it raised
    call,               \* the last call on a plan or a shortlist, and its arguments
    history             \* the calls that made the receiver out of the empty shortlist

vars == <<dishes, weeks, per_week, eastern_per_week, western_per_week,
          eastern_dishes, western_dishes, used_count, recently_used,
          week_results, week_idx, week_state, available_eastern,
          available_western, available_all, k, pc, result, calls, first,
          plan, catalogue, report, suggestions,
          num_weeks, shortlist, before, returned, call, history>>

locals == <<eastern_dishes, western_dishes, used_count, recently_used,
            week_results, week_idx, week_state, available_eastern,
            available_western, available_all, k>>

args == <<dishes, weeks, per_week, eastern_per_week, western_per_week>>

analysis == <<plan, catalogue, report, suggestions>>

objects == <<num_weeks, shortlist, before, returned, call, history>>

----------------------------------------------------------------------------
(* Bounds of the checked inputs *)

MaxDishes == 3
MaxWeeks == 2
MaxPerWeek == 2
MaxQuota == 2
MaxCalls == 3
MaxPlanWeeks == 2
MaxPlanLen == 4
MaxOps == 4

----------------------------------------------------------------------------
(* Taxonomy: core/catalogue/enums.py *)

EASTERN == "eastern"
WESTERN == "western"

Region == {EASTERN, WESTERN}

Category == {"greens", "legumes", "grains", "alliums", "cruciferous",
             "fresh_herbs", "seeds", "fermented", "root_veg", "dairy"}

EasternCuisines == {"korean", "japanese", "chinese", "thai", "vietnamese", "indian"}

WesternCuisines == {"italian", "french", "american", "mexican", "mediterranean"}

Cuisine == EasternCuisines \cup WesternCuisines

CUISINE_REGION == [c \in Cuisine |-> IF c \in EasternCuisines THEN EASTERN ELSE WESTERN]

\* Dish.region: derived from the cuisine, never stored
region(dish) == CUISINE_REGION[dish.cuisine]

Dish(uid, cuisine, categories) ==
    [uid |-> uid, cuisine |-> cuisine, categories |-> categories]

\* The value of "no dish" (None of _pick_best)
NoDish == [uid |-> 0, cuisine |-> "none", categories |-> <<>>]

----------------------------------------------------------------------------
(* Python list and dict operations on sequences *)

SetOf(s) == {s[i] : i \in DOMAIN s}

\* x in s
In(x, s) == \E i \in DOMAIN s : s[i] = x

\* if x in s: s.remove(x)   (removes the first occurrence only)
list_remove(s, x) ==
    IF ~In(x, s) THEN s
    ELSE LET i == CHOOSE j \in DOMAIN s : s[j] = x /\ \A h \in 1..(j-1) : s[h] # x
         IN  SubSeq(s, 1, i - 1) \o SubSeq(s, i + 1, Len(s))

\* d.get(uid, 0) on a dict kept as its items <<uid, count>> in insertion order
dict_get(d, uid) ==
    IF \E i \in DOMAIN d : d[i][1] = uid
    THEN LET i == CHOOSE j \in DOMAIN d : d[j][1] = uid IN d[i][2]
    ELSE 0

\* d[uid] = v: an existing key keeps its place, a new key goes last
dict_set(d, uid, v) ==
    IF \E i \in DOMAIN d : d[i][1] = uid
    THEN [i \in DOMAIN d |-> IF d[i][1] = uid THEN <<uid, v>> ELSE d[i]]
    ELSE Append(d, <<uid, v>>)

----------------------------------------------------------------------------
(* distribution.py *)

EmptyWeekState == [categories_used |-> {}, cuisines_used |-> {}, dish_uids |-> <<>>]

\* A slip: the week is returned as it was
add_dish_nothing(ws, dish) == ws

\* _WeekState.add_dish
add_dish(ws, dish) ==
    [dish_uids       |-> Append(ws.dish_uids, dish.uid),
     categories_used |-> ws.categories_used \cup SetOf(dish.categories),
     cuisines_used   |-> ws.cuisines_used \cup {dish.cuisine}]

\* _score_dish, in half points
score_dish(dish, ws, recent) ==
    2 * Cardinality(SetOf(dish.categories) \ ws.categories_used)
    + (IF dish.cuisine \notin ws.cuisines_used THEN 1 ELSE 0)
    - (IF dish.uid \in recent THEN 2 ELSE 0)

\* A slip: the last candidate of maximal key is taken
pick_best_last(candidates, ws, recent) ==
    IF candidates = <<>> THEN NoDish
    ELSE LET i == CHOOSE j \in DOMAIN candidates :
                    /\ \A h \in DOMAIN candidates :
                          score_dish(candidates[h], ws, recent)
                              <= score_dish(candidates[j], ws, recent)
                    /\ \A h \in (j+1)..Len(candidates) :
                          score_dish(candidates[h], ws, recent)
                              < score_dish(candidates[j], ws, recent)
         IN  candidates[i]

\* _pick_best: max() returns the first candidate of maximal key
pick_best(candidates, ws, recent) ==
    IF candidates = <<>> THEN NoDish
    ELSE LET i == CHOOSE j \in DOMAIN candidates :
                    /\ \A h \in DOMAIN candidates :
                          score_dish(candidates[h], ws, recent)
                              <= score_dish(candidates[j], ws, recent)
                    /\ \A h \in 1..(j-1) :
                          score_dish(candidates[h], ws, recent)
                              < score_dish(candidates[j], ws, recent)
         IN  candidates[i]

IsEastern(dish) == region(dish) = EASTERN

IsWestern(dish) == region(dish) # EASTERN

\* _separate_by_region
separate_by_region(ds) == <<SelectSeq(ds, IsEastern), SelectSeq(ds, IsWestern)>>

\* [d for d in ds if used_count.get(d.uid, 0) == 0]
unused(ds, uc) == LET Fresh(d) == dict_get(uc, d.uid) = 0 IN SelectSeq(ds, Fresh)

\* A slip: used_count[uid] = 1
count_use_once(uc, uid) == dict_set(uc, uid, 1)

\* used_count[uid] = used_count.get(uid, 0) + 1
count_use(uc, uid) == dict_set(uc, uid, dict_get(uc, uid) + 1)

\* A slip: the Eastern quota never prefers the unused dishes
eastern_pool_all == eastern_dishes

\* A slip: without an unused Eastern dish the quota draws from the whole input
eastern_pool_any == IF available_eastern # <<>> THEN available_eastern ELSE dishes

\* line 139: unused Eastern dishes first, then all Eastern dishes
eastern_pool == IF available_eastern # <<>> THEN available_eastern ELSE eastern_dishes

\* A slip: the Western quota never prefers the unused dishes
western_pool_all == western_dishes

\* line 153
western_pool == IF available_western # <<>> THEN available_western ELSE western_dishes

\* A slip: the fill step never falls back to the dishes already used
fill_base_pool_no_reuse == available_all

\* line 167
fill_base_pool == IF available_all # <<>> THEN available_all ELSE dishes

\* A slip: the dishes already picked this week stay in the pool
not_in_week_kept(pool, ws) == pool

\* line 171: exclude the dishes already picked this week
not_in_week(pool, ws) ==
    LET NotPicked(d) == ~In(d.uid, ws.dish_uids) IN SelectSeq(pool, NotPicked)

\* lines 167-171
fill_pool == IF fill_base_pool = <<>> THEN <<>> ELSE not_in_week(fill_base_pool, week_state)

\* lines 166-173: the fill loop goes on
fill_continues == Len(week_state.dish_uids) < per_week /\ fill_pool # <<>>

\* A slip: the counts of the previous call are kept
stale_used_count == used_count

\* line 121
new_used_count == <<>>

\* line 123
new_recently_used == {}

\* A slip: the identifiers of all the weeks so far stay recently used
recently_used_so_far(ws) == recently_used \cup SetOf(ws.dish_uids)

\* line 184: recently_used = set(week_state.dish_uids)
recently_used_after(ws) == SetOf(ws.dish_uids)

\* A slip: a week without dishes is left out
append_week_nonempty(results, ws) ==
    IF ws.dish_uids = <<>> THEN results ELSE Append(results, ws.dish_uids)

\* line 183
append_week(results, ws) == Append(results, ws.dish_uids)

\* line 187
all_input_uids(ds) == {ds[i].uid : i \in DOMAIN ds}

\* A slip: only the last week is looked at
all_used_uids_last_week(results) ==
    IF results = <<>> THEN {} ELSE SetOf(results[Len(results)])

\* line 188
all_used_uids(results) == UNION {SetOf(results[i]) : i \in DOMAIN results}

\* A slip: the test of line 189 inverted
discarded_uids_inverted(ds, results) == all_input_uids(ds) \cap all_used_uids(results)

\* line 189, as a set: the input identifiers placed in no week
discarded_uids(ds, results) == all_input_uids(ds) \ all_used_uids(results)

\* A slip: reused lists the dishes placed more than three times
reused_from_four(uc) ==
    LET Often(item) == item[2] > 3
        items == SelectSeq(uc, Often)
    IN  [i \in DOMAIN items |-> items[i][1]]

\* line 190: the keys of used_count with count > 1, in the dict's order
reused_of(uc) ==
    LET Twice(item) == item[2] > 1
        items == SelectSeq(uc, Twice)
    IN  [i \in DOMAIN items |-> items[i][1]]

EmptyResult == [weeks |-> <<>>, discarded |-> <<>>, reused |-> <<>>]

----------------------------------------------------------------------------
(* analysis.py *)

\* line 59
max_cuisines == 11

Min(a, b) == IF a <= b THEN a ELSE b

Max(a, b) == IF a >= b THEN a ELSE b

\* The entries of a long plan: 15 dishes over 22 slots, the first 7 served twice
LongPlanUids == [i \in 1..22 |-> ((i - 1) % 15) + 1]

\* the longest plan of the model: MaxPlanLen entries, or the long plan
MaxEntries == Max(MaxPlanLen, Len(LongPlanUids))

\* dict.get(key, 0) on a dict kept as a function
get0(d, key) == IF key \in DOMAIN d THEN d[key] ELSE 0

\* MealPlan.all_dish_uids: the weeks' dishes, one week after the other
RECURSIVE all_dish_uids(_)
all_dish_uids(ws) ==
    IF ws = <<>> THEN <<>> ELSE Head(ws) \o all_dish_uids(Tail(ws))

\* dish_by_uid.get(uid): of two dishes with the same uid the later one is kept
dish_by_uid(ds, uid) ==
    IF \E i \in DOMAIN ds : ds[i].uid = uid
    THEN LET i == CHOOSE j \in DOMAIN ds :
                    ds[j].uid = uid /\ \A h \in (j+1)..Len(ds) : ds[h].uid # uid
         IN  ds[i]
    ELSE NoDish

\* lines 113-114: the dish found for every entry of the plan, NoDish if none
lookup_all(all_uids, ds) == [i \in DOMAIN all_uids |-> dish_by_uid(ds, all_uids[i])]

\* lines 115-116: the entries that are not skipped
resolved(found) == {i \in DOMAIN found : found[i] # NoDish}

\* Counter(all_dish_uids): a dict in the order of first occurrence, kept as a
\* sequence of <<uid, count>> because suggest_improvements iterates over it
RECURSIVE dish_counts(_)
dish_counts(all_uids) ==
    IF all_uids = <<>> THEN <<>>
    ELSE LET front == dish_counts(SubSeq(all_uids, 1, Len(all_uids) - 1))
             uid == all_uids[Len(all_uids)]
         IN  dict_set(front, uid, dict_get(front, uid) + 1)

\* A slip: a dish counts as repeated from its second occurrence on
repeated_dishes_from_two(counts) ==
    LET Many(entry) == entry[2] > 1 IN SelectSeq(counts, Many)

\* line 106
repeated_dishes(counts) ==
    LET Many(entry) == entry[2] > 2 IN SelectSeq(counts, Many)

\* A slip: an entry that is not found is tallied under the cuisine of NoDish
cuisine_counts_unskipped(found) ==
    [c \in {found[i].cuisine : i \in DOMAIN found} |->
        Cardinality({i \in DOMAIN found : found[i].cuisine = c})]

\* lines 118-120
cuisine_counts(found) ==
    LET res == resolved(found)
    IN  [c \in {found[i].cuisine : i \in res} |->
            Cardinality({i \in res : found[i].cuisine = c})]

\* A slip: a dish is tallied under its region once, at its first occurrence
region_counts_once(found) ==
    LET res == {i \in resolved(found) : \A j \in 1..(i-1) : found[j] # found[i]}
    IN  [r \in {region(found[i]) : i \in res} |->
            Cardinality({i \in res : region(found[i]) = r})]

\* lines 122-124
region_counts(found) ==
    LET res == resolved(found)
    IN  [r \in {region(found[i]) : i \in res} |->
            Cardinality({i \in res : region(found[i]) = r})]

\* lines 126-129: every entry of the categories tuple of a resolved occurrence counts
category_counts(found) ==
    LET entries == UNION { {<<i, j>> : j \in DOMAIN found[i].categories} :
                           i \in resolved(found) }
    IN  [c \in {found[e[1]].categories[e[2]] : e \in entries} |->
            Cardinality({e \in entries : found[e[1]].categories[e[2]] = c})]

\* A slip: the uniqueness ratio inverted (total / unique)
calculate_variety_score_inverted(unique_count, total_count, cuisines, regions) ==
    IF total_count = 0 THEN 100
    ELSE LET cuisine_count == Cardinality(DOMAIN cuisines)
             eastern == get0(regions, EASTERN)
             western == get0(regions, WESTERN)
             total == eastern + western
             hi == IF total = 0 THEN 1 ELSE Max(eastern, western)
             lo == IF total = 0 THEN 1 ELSE Min(eastern, western)
             den == unique_count * max_cuisines * hi
             num == 40 * total_count * max_cuisines * hi
                    + Min(30 * max_cuisines, 30 * cuisine_count) * unique_count * hi
                    + 30 * lo * unique_count * max_cuisines
         IN  num \div den

(* Python floats are IEEE 754 doubles.  A double that is not zero is kept as
   [hi, lo, e] and stands for (hi * 2^27 + lo) * 2^e, the 53-bit significand
   split in two so that every intermediate fits a 32-bit integer:
   2^25 <= hi < 2^26 and 0 <= lo < 2^27.  Every operation rounds to nearest,
   ties to even, as the hardware does.  All values here are non-negative. *)
RECURSIVE Pow2(_)
Pow2(n) == IF n = 0 THEN 1 ELSE 2 * Pow2(n - 1)

Two25 == Pow2(25)

Two26 == Pow2(26)

Two27 == Pow2(27)

float_zero == [hi |-> 0, lo |-> 0, e |-> 0]

\* the next significand up; past the last one the exponent steps
float_next(hi, lo, e) ==
    IF lo + 1 < Two27 THEN [hi |-> hi, lo |-> lo + 1, e |-> e]
    ELSE IF hi + 1 < Two26 THEN [hi |-> hi + 1, lo |-> 0, e |-> e]
    ELSE [hi |-> Two25, lo |-> 0, e |-> e + 1]

\* drop the s lowest bits of hi * 2^27 + lo, rounding to nearest, ties to even
float_round_shift(hi, lo, e, s) ==
    IF s = 0 THEN [hi |-> hi, lo |-> lo, e |-> e]
    ELSE LET d == Pow2(s)
             dropped == lo % d
             kept_lo == (lo \div d) + (hi % d) * (Two27 \div d)
             kept_hi == hi \div d
             half == d \div 2
         IN  IF dropped > half \/ (dropped = half /\ kept_lo % 2 = 1)
             THEN float_next(kept_hi, kept_lo, e + s)
             ELSE [hi |-> kept_hi, lo |-> kept_lo, e |-> e + s]

\* the number of bits by which hi * 2^27 + lo exceeds 53 bits
RECURSIVE float_excess(_)
float_excess(hi) == IF hi < Two26 THEN 0 ELSE 1 + float_excess(hi \div 2)

float_round(hi, lo, e) == float_round_shift(hi, lo, e, float_excess(hi))

\* int / int: the quotient bit by bit until 53 bits are there, then rounded on
\* the remainder
RECURSIVE float_div_bits(_, _, _, _, _)
float_div_bits(r, b, hi, lo, e) ==
    IF hi >= Two25
    THEN IF 2 * r > b \/ (2 * r = b /\ lo % 2 = 1)
         THEN float_next(hi, lo, e)
         ELSE [hi |-> hi, lo |-> lo, e |-> e]
    ELSE LET bit == IF 2 * r >= b THEN 1 ELSE 0
             lo2 == 2 * lo + bit
         IN  float_div_bits(2 * r - bit * b, b,
                            2 * hi + (lo2 \div Two27), lo2 % Two27, e - 1)

float_div(a, b) == IF a = 0 THEN float_zero ELSE float_div_bits(a % b, b, 0, a \div b, 0)

\* float(n) of a small integer
float_of_int(n) == float_div(n, 1)

\* x * n for a double x and a small integer n: a factor 2 only moves the
\* exponent, the odd factor is multiplied out and rounded
RECURSIVE float_mul(_, _)
float_mul(x, n) ==
    IF x = float_zero \/ n = 0 THEN float_zero
    ELSE IF n % 2 = 0 THEN float_mul([x EXCEPT !.e = @ + 1], n \div 2)
    ELSE LET plo == x.lo * n
         IN  float_round(x.hi * n + (plo \div Two27), plo % Two27, x.e)

\* one bit to the right, a lost 1 kept in the lowest bit (sticky)
RECURSIVE float_shift_right(_, _, _)
float_shift_right(hi, lo, d) ==
    IF d = 0 \/ (hi = 0 /\ lo <= 1) THEN <<hi, lo>>
    ELSE LET moved == (lo \div 2) + (hi % 2) * Two26
             sticky == IF lo % 2 = 1 /\ moved % 2 = 0 THEN moved + 1 ELSE moved
         IN  float_shift_right(hi \div 2, sticky, d - 1)

\* x + y: both significands with three more bits, the smaller exponent's one
\* shifted to the larger exponent, the sum rounded
float_add(x, y) ==
    IF x = float_zero THEN y
    ELSE IF y = float_zero THEN x
    ELSE LET big == IF x.e >= y.e THEN x ELSE y
             small == IF x.e >= y.e THEN y ELSE x
             b_lo == big.lo * 8
             s_lo == small.lo * 8
             s == float_shift_right(small.hi * 8 + (s_lo \div Two27), s_lo % Two27,
                                    big.e - small.e)
             lo == (b_lo % Two27) + s[2]
             hi == big.hi * 8 + (b_lo \div Two27) + s[1] + (lo \div Two27)
         IN  float_round(hi, lo % Two27, big.e - 3)

\* int(x) of a double below 2^26
float_int(x) ==
    IF x = float_zero \/ x.e <= -53 THEN 0 ELSE x.hi \div Pow2((-x.e) - 27)

\* min(30, x): x when x < 30, else the integer 30 (as a double in the sum)
float_min_int(n, x) == IF float_int(x) < n THEN x ELSE float_of_int(n)

\* (a / b) * n for every count a <= b that a plan or a catalogue of the
\* model has, worked out once
float_products ==
    [n \in {30, 40} |->
        [b \in 1..Max(MaxEntries, max_cuisines) |->
            [a \in 0..b |-> float_mul(float_div(a, b), n)]]]

\* (a / b) * n
float_ratio_times(a, b, n) == float_products[n][b][a]

\* calculate_variety_score: three doubles added left to right, then int()
calculate_variety_score(unique_count, total_count, cuisines, regions) ==
    IF total_count = 0 THEN 100
    ELSE LET uniqueness == float_ratio_times(unique_count, total_count, 40)
             cuisine_score ==
                 float_min_int(30, float_ratio_times(Cardinality(DOMAIN cuisines),
                                                     max_cuisines, 30))
             eastern == get0(regions, EASTERN)
             western == get0(regions, WESTERN)
             total == eastern + western
             balance_score ==
                 IF total = 0 THEN float_of_int(30)
                 ELSE float_ratio_times(Min(eastern, western),
                                        Max(eastern, western), 30)
         IN  float_int(float_add(float_add(uniqueness, cuisine_score),
                                 balance_score))

\* assess_variety
assess_variety(weeks_of_plan, ds) ==
    LET all_uids == all_dish_uids(weeks_of_plan)
        counts == dish_counts(all_uids)
        found == lookup_all(all_uids, ds)
        cuisines == cuisine_counts(found)
        regions == region_counts(found)
    IN  [cuisine_distribution  |-> cuisines,
         region_distribution   |-> regions,
         category_distribution |-> category_counts(found),
         repeated_dishes       |-> repeated_dishes(counts),
         unique_dish_count     |-> Len(counts),
         total_dish_count      |-> Len(all_uids),
         variety_score         |-> calculate_variety_score(
                                      Len(counts), Len(all_uids),
                                      cuisines, regions)]

\* a / b for the counts a >= b of the model, worked out once
float_quotients ==
    [b \in 1..MaxEntries |-> [a \in b..MaxEntries |-> float_div(a, b)]]

\* x > n for a double x and an integer n
float_gt_int(x, n) == float_int(x) > n \/ (float_int(x) = n /\ x # float_of_int(n))

\* One suggestion.  The code formats a string; kept are the kind of message and
\* the values the string is built from.  A dish is named by its uid.
Suggestion(kind, uid, count, other, dominant) ==
    [kind |-> kind, uid |-> uid, count |-> count, other |-> other,
     dominant |-> dominant]

\* A slip: a message for every repeated dish, found or not
repetition_suggestions_all(repeated, ds) ==
    [i \in DOMAIN repeated |->
        Suggestion("repetition", repeated[i][1], repeated[i][2], 0, "")]

\* lines 165-170: one message for every repeated dish the catalogue holds
repetition_suggestions(repeated, ds) ==
    LET Known(entry) == dish_by_uid(ds, entry[1]) # NoDish
        named == SelectSeq(repeated, Known)
    IN  [i \in DOMAIN named |->
            Suggestion("repetition", dish_by_uid(ds, named[i][1]).uid, named[i][2], 0, "")]

\* A slip: a region dominates from twice the other on
region_suggestions_from_double(regions) ==
    LET eastern == get0(regions, EASTERN)
        western == get0(regions, WESTERN)
    IN  IF eastern > 0 /\ western > 0 /\ Max(eastern, western) >= 2 * Min(eastern, western)
        THEN << Suggestion("region", 0, Max(eastern, western), Min(eastern, western),
                           IF eastern > western THEN "Eastern" ELSE "Western") >>
        ELSE <<>>

\* lines 172-182
region_suggestions(regions) ==
    LET eastern == get0(regions, EASTERN)
        western == get0(regions, WESTERN)
    IN  IF eastern > 0 /\ western > 0
           /\ float_gt_int(float_quotients[Min(eastern, western)][Max(eastern, western)], 2)
        THEN << Suggestion("region", 0, Max(eastern, western), Min(eastern, western),
                           IF eastern > western THEN "Eastern" ELSE "Western") >>
        ELSE <<>>

\* A slip: three cuisines still count as few
cuisine_suggestions_up_to_three(cuisines) ==
    IF Cardinality(DOMAIN cuisines) < 4
    THEN << Suggestion("cuisines", 0, Cardinality(DOMAIN cuisines), 0, "") >>
    ELSE <<>>

\* lines 184-189
cuisine_suggestions(cuisines) ==
    IF Cardinality(DOMAIN cuisines) < 3
    THEN << Suggestion("cuisines", 0, Cardinality(DOMAIN cuisines), 0, "") >>
    ELSE <<>>

\* A slip: the two score messages stacked instead of chained
score_suggestions_stacked(score) ==
    (IF score < 50 THEN << Suggestion("low", 0, 0, 0, "") >> ELSE <<>>)
    \o (IF score < 70 THEN << Suggestion("room", 0, 0, 0, "") >> ELSE <<>>)

\* lines 191-195
score_suggestions(score) ==
    IF score < 50 THEN << Suggestion("low", 0, 0, 0, "") >>
    ELSE IF score < 70 THEN << Suggestion("room", 0, 0, 0, "") >>
    ELSE <<>>

\* suggest_improvements
suggest_improvements(rep, ds) ==
    repetition_suggestions(rep.repeated_dishes, ds)
    \o region_suggestions(rep.region_distribution)
    \o cuisine_suggestions(rep.cuisine_distribution)
    \o score_suggestions(rep.variety_score)

EmptyReport ==
    [cuisine_distribution  |-> <<>>,
     region_distribution   |-> <<>>,
     category_distribution |-> <<>>,
     repeated_dishes       |-> <<>>,
     unique_dish_count     |-> 0,
     total_dish_count      |-> 0,
     variety_score         |-> 0]

----------------------------------------------------------------------------
(* planning/models.py.  A MealPlan is kept as its weeks, a WeekPlan as its
   dishes, a Shortlist as its dish_uids: tuples of a frozen model.  A call
   gives [raised, value]: whether it raised, and else what it returned. *)

Returned(value) == [raised |-> FALSE, value |-> value]

Raised == [raised |-> TRUE, value |-> <<>>]

\* A slip: one week more than asked for
create_one_more(n) == [i \in 1..(n + 1) |-> <<>>]

\* MealPlan.create: range(num_weeks) is empty for num_weeks <= 0
create(n) == [i \in 1..n |-> <<>>]

\* A slip: no range check, so that weeks_list[week_num - 1] counts a
\* week_num of 0 or less from the end of the list
with_week_wrapping(self, week_num, week) ==
    IF week_num > Len(self) \/ week_num <= -Len(self) THEN Raised
    ELSE Returned([self EXCEPT ![IF week_num >= 1 THEN week_num
                                 ELSE Len(self) + week_num] = week])

\* MealPlan.with_week
with_week(self, week_num, week) ==
    IF ~(1 <= week_num /\ week_num <= Len(self)) THEN Raised
    ELSE Returned([self EXCEPT ![week_num] = week])

\* A slip: add without the membership test
add_again(self, dish_uid) == Returned(Append(self, dish_uid))

\* A slip: the new identifier is put in front
add_in_front(self, dish_uid) ==
    IF In(dish_uid, self) THEN Returned(self) ELSE Returned(<<dish_uid>> \o self)

\* Shortlist.add
add(self, dish_uid) ==
    IF In(dish_uid, self) THEN Returned(self) ELSE Returned(Append(self, dish_uid))

\* Shortlist.remove
remove(self, dish_uid) ==
    LET Other(uid) == uid # dish_uid IN Returned(SelectSeq(self, Other))

\* Shortlist.clear
clear(self) == Returned(<<>>)

----------------------------------------------------------------------------
(* Inputs *)

DishKinds ==
    { [cuisine |-> "korean",   categories |-> <<"greens">>],
      [cuisine |-> "japanese", categories |-> <<"greens", "grains">>],
      [cuisine |-> "italian",  categories |-> <<>>],
      [cuisine |-> "french",   categories |-> <<"grains">>] }

\* The dish lists of length n: the i-th dish has uid i
DishLists(n) ==
    { [i \in 1..n |-> Dish(i, kinds[i].cuisine, kinds[i].categories)] :
        kinds \in [1..n -> DishKinds] }

Input(ds, w, p, e, we) ==
    [dishes |-> ds, weeks |-> w, per_week |-> p,
     eastern_per_week |-> e, western_per_week |-> we]

GeneralInputs ==
    { Input(ds, w, p, e, we) :
        ds \in UNION {DishLists(n) : n \in 0..MaxDishes},
        w \in 0..MaxWeeks, p \in 0..MaxPerWeek,
        e \in 0..MaxQuota, we \in 0..MaxQuota }

\* Scenario: 4 Eastern and 4 Western dishes, 2 weeks of 2 + 2
EightDishes ==
    << Dish(1, "korean",   <<"fermented", "greens">>),
       Dish(2, "japanese", <<"grains">>),
       Dish(3, "chinese",  <<"greens", "alliums">>),
       Dish(4, "thai",     <<"fresh_herbs">>),
       Dish(5, "italian",  <<"grains", "dairy">>),
       Dish(6, "french",   <<"dairy">>),
       Dish(7, "american", <<"root_veg">>),
       Dish(8, "mexican",  <<"legumes", "grains">>) >>

\* Scenario: one Eastern and one Western dish, in either order, 2 + 2 of 4
TwoDishLists ==
    { ds \in DishLists(2) : region(ds[1]) # region(ds[2]) }

ScenarioInputs ==
    { Input(EightDishes, 2, 4, 2, 2) }
    \cup { Input(ds, w, 4, 2, 2) : ds \in TwoDishLists, w \in 2..(MaxWeeks + 1) }

\* Three weeks of one dish each from two dishes: the third week reuses the dish
\* of the first
SpacingInputs ==
    { Input(ds, MaxWeeks + 1, 1, 0, 0) : ds \in TwoDishLists }

Inputs == GeneralInputs \cup ScenarioInputs \cup SpacingInputs

\* Any integers for the four parameters, negative ones included
TerminationInputs ==
    { Input(ds, w, p, e, we) :
        ds \in DishLists(0) \cup DishLists(1) \cup TwoDishLists,
        w \in (-1)..MaxWeeks, p \in (-1)..MaxPerWeek,
        e \in (-1)..MaxQuota, we \in (-1)..MaxQuota }

\* The arguments of the calls that follow a first call
RepeatInputs ==
    { Input(ds, p[1], p[2], p[3], p[4]) :
        ds \in DishLists(1) \cup DishLists(2),
        p \in {<<2, 3, 2, 1>>, <<2, 1, 0, 1>>, <<1, 0, 0, 0>>} }

\* The identifiers a plan may hold
PlanUids == {1, 2, 3}

\* The dishes a catalogue may hold for an identifier
CatalogueKinds ==
    { [cuisine |-> "korean",   categories |-> <<"greens", "greens">>],
      [cuisine |-> "japanese", categories |-> <<"greens", "grains">>],
      [cuisine |-> "italian",  categories |-> <<>>] }

\* The lists of at most n identifiers.  Identifiers are names only, so a list
\* takes them in order of first use: 1 first, and i + 1 only after i.
UidLists(n) ==
    UNION { { f \in [1..l -> PlanUids] :
                \A i \in 1..l : f[i] = 1 \/ \E h \in 1..(i - 1) : f[h] = f[i] - 1 } :
            l \in 0..n }

\* The weeks of a plan that holds the entries of flat, week i ending at cuts[i]
SplitWeeks(flat, cuts) ==
    [i \in DOMAIN cuts |->
        SubSeq(flat, (IF i = 1 THEN 0 ELSE cuts[i - 1]) + 1, cuts[i])]

\* The plans of at most MaxPlanWeeks weeks and MaxPlanLen dish entries
Plans ==
    {<<>>} \cup
    UNION { { SplitWeeks(flat, cuts) :
                cuts \in { c \in [1..n -> 0..Len(flat)] :
                             /\ c[n] = Len(flat)
                             /\ \A i \in 1..(n - 1) : c[i] <= c[i + 1] } } :
            flat \in UidLists(MaxPlanLen), n \in 1..MaxPlanWeeks }

\* The catalogues: some of the identifiers, each with some dish
Catalogues ==
    UNION { { [i \in 1..Len(us) |-> Dish(us[i], kinds[i].cuisine, kinds[i].categories)] :
                kinds \in [1..Len(us) -> CatalogueKinds] } :
            us \in {<<>>, <<1>>, <<2>>, <<3>>, <<1, 2>>, <<1, 3>>, <<2, 3>>, <<1, 2, 3>>} }

\* The long plan in two weeks of 11, and a catalogue that holds its 15 dishes,
\* all of one cuisine
LongPlan == SplitWeeks(LongPlanUids, <<11, 22>>)

LongCatalogue == [i \in 1..15 |-> Dish(i, "italian", <<>>)]

\* A plan with two dishes served three times each
RepeatedPlan == << <<1, 2, 1>>, <<2, 1, 2>> >>

\* The arguments of PlanningService.create_plan: two dishes of different
\* regions, any number of weeks from -1 on, with and without quotas
PlanInputs ==
    { Input(ds, w, MaxPerWeek, q, q) :
        ds \in TwoDishLists, w \in (-1)..MaxWeeks, q \in {0, 1} }

\* The arguments of MealPlan.with_week
WeekNums == (-1)..(Max(MaxPlanWeeks, MaxWeeks) + 1)

WeekChoices == { <<>>, <<1>>, <<2, 1>> }

\* The identifiers given to a Shortlist
ShortlistUids == PlanUids \cup {4}

NoInput == Input(<<>>, 0, 0, 0, 0)

CurrentInput == Input(dishes, weeks, per_week, eastern_per_week, western_per_week)

----------------------------------------------------------------------------
(* distribute_dishes, step by step *)

\* The arguments and locals at line 127 of a call with the arguments inp
InitCall(inp) ==
    /\ dishes = inp.dishes
    /\ weeks = inp.weeks
    /\ per_week = inp.per_week
    /\ eastern_per_week = inp.eastern_per_week
    /\ western_per_week = inp.western_per_week
    /\ eastern_dishes = separate_by_region(inp.dishes)[1]
    /\ western_dishes = separate_by_region(inp.dishes)[2]
    /\ used_count = <<>>
    /\ recently_used = {}
    /\ week_results = <<>>
    /\ week_idx = 0
    /\ week_state = EmptyWeekState
    /\ available_eastern = <<>>
    /\ available_western = <<>>
    /\ available_all = <<>>
    /\ k = 0
    /\ result = EmptyResult

NoCall == [op |-> "none", week_num |-> 0, week |-> <<>>, dish_uid |-> 0]

NoReturn == [raised |-> FALSE, value |-> <<>>]

\* Nothing suggested yet, no plan or shortlist operation called yet
InitObjects ==
    /\ suggestions = <<>>
    /\ num_weeks = 0
    /\ shortlist = <<>>
    /\ before = <<>>
    /\ returned = NoReturn
    /\ call = NoCall
    /\ history = <<>>

\* lines 118-125: a further call, with the arguments inp
EnterDistribute(inp) ==
    /\ dishes' = inp.dishes
    /\ weeks' = inp.weeks
    /\ per_week' = inp.per_week
    /\ eastern_per_week' = inp.eastern_per_week
    /\ western_per_week' = inp.western_per_week
    /\ eastern_dishes' = separate_by_region(inp.dishes)[1]
    /\ western_dishes' = separate_by_region(inp.dishes)[2]
    /\ used_count' = new_used_count
    /\ recently_used' = new_recently_used
    /\ week_results' = <<>>
    /\ week_idx' = 0
    /\ week_state' = EmptyWeekState
    /\ available_eastern' = <<>>
    /\ available_western' = <<>>
    /\ available_all' = <<>>
    /\ k' = 0
    /\ pc' = "week"
    /\ result' = EmptyResult

\* lines 127-134: the head of the week loop
BeginWeek ==
    /\ pc = "week"
    /\ week_idx < weeks
    /\ week_state' = EmptyWeekState
    /\ available_eastern' = unused(eastern_dishes, used_count)
    /\ available_western' = unused(western_dishes, used_count)
    /\ available_all' = unused(dishes, used_count)
    /\ k' = 0
    /\ pc' = "eastern"
    /\ UNCHANGED <<args, eastern_dishes, western_dishes, used_count, recently_used,
                   week_results, week_idx, result, calls, first, analysis, objects>>

\* lines 137-149: one iteration of the Eastern quota loop
PickEastern ==
    /\ pc = "eastern"
    /\ k < eastern_per_week
    /\ eastern_pool # <<>>
    /\ LET best == pick_best(eastern_pool, week_state, recently_used) IN
         /\ week_state' = add_dish(week_state, best)
         /\ used_count' = count_use(used_count, best.uid)
         /\ available_eastern' = list_remove(available_eastern, best)
         /\ available_all' = list_remove(available_all, best)
    /\ k' = k + 1
    /\ UNCHANGED <<args, eastern_dishes, western_dishes, recently_used, week_results,
                   week_idx, available_western, pc, result, calls, first, analysis, objects>>

\* lines 137-141: the Eastern quota loop ends (quota reached, or no Eastern dish)
EndEastern ==
    /\ pc = "eastern"
    /\ ~(k < eastern_per_week /\ eastern_pool # <<>>)
    /\ k' = 0
    /\ pc' = "western"
    /\ UNCHANGED <<args, eastern_dishes, western_dishes, used_count, recently_used,
                   week_results, week_idx, week_state, available_eastern,
                   available_western, available_all, result, calls, first, analysis, objects>>

\* lines 152-163: one iteration of the Western quota loop
PickWestern ==
    /\ pc = "western"
    /\ k < western_per_week
    /\ western_pool # <<>>
    /\ LET best == pick_best(western_pool, week_state, recently_used) IN
         /\ week_state' = add_dish(week_state, best)
         /\ used_count' = count_use(used_count, best.uid)
         /\ available_western' = list_remove(available_western, best)
         /\ available_all' = list_remove(available_all, best)
    /\ k' = k + 1
    /\ UNCHANGED <<args, eastern_dishes, western_dishes, recently_used, week_results,
                   week_idx, available_eastern, pc, result, calls, first, analysis, objects>>

\* lines 152-155: the Western quota loop ends
EndWestern ==
    /\ pc = "western"
    /\ ~(k < western_per_week /\ western_pool # <<>>)
    /\ k' = 0
    /\ pc' = "fill"
    /\ UNCHANGED <<args, eastern_dishes, western_dishes, used_count, recently_used,
                   week_results, week_idx, week_state, available_eastern,
                   available_western, available_all, result, calls, first, analysis, objects>>

\* lines 166-179: one iteration of the fill loop
FillSlot ==
    /\ pc = "fill"
    /\ fill_continues
    /\ LET best == pick_best(fill_pool, week_state, recently_used) IN
         /\ week_state' = add_dish(week_state, best)
         /\ used_count' = count_use(used_count, best.uid)
         /\ available_all' = list_remove(available_all, best)
    /\ UNCHANGED <<args, eastern_dishes, western_dishes, recently_used, week_results,
                   week_idx, available_eastern, available_western, k, pc, result,
                   calls, first, analysis, objects>>

\* lines 166-173 (loop exit) and 183-184: the week is finished
EndWeek ==
    /\ pc = "fill"
    /\ ~fill_continues
    /\ week_results' = append_week(week_results, week_state)
    /\ recently_used' = recently_used_after(week_state)
    /\ week_idx' = week_idx + 1
    /\ pc' = "week"
    /\ UNCHANGED <<args, eastern_dishes, western_dishes, used_count, week_state,
                   available_eastern, available_western, available_all, k, result,
                   calls, first, analysis, objects>>

\* All orders in which a set can be iterated
Orderings(S) ==
    { s \in [1..Cardinality(S) -> S] : \A i, j \in 1..Cardinality(S) : i # j => s[i] # s[j] }

\* s and t list their common elements in the same order
SameOrder(s, t) ==
    \A i, j \in DOMAIN s : \A h, l \in DOMAIN t :
        (s[i] = t[h] /\ s[j] = t[l] /\ i < j) => h < l

\* lines 186-196.  The order of discarded is the iteration order of a set of
\* strings: any order, but the same one whenever the same identifiers are
\* put into the set in the same order within one process.
Finish ==
    /\ pc = "week"
    /\ ~(week_idx < weeks)
    /\ \E disc \in Orderings(discarded_uids(dishes, week_results)) :
         /\ (first.set /\ Len(first.inp.dishes) = Len(dishes))
               => SameOrder(first.out.discarded, disc)
         /\ result' = [weeks     |-> week_results,
                       discarded |-> disc,
                       reused    |-> reused_of(used_count)]
    /\ pc' = "done"
    /\ UNCHANGED <<args, locals, calls, first, analysis, objects>>

\* The caller calls distribute_dishes again, with any arguments
CallAgain ==
    /\ pc = "done"
    /\ calls < MaxCalls
    /\ first' = IF first.set THEN first
                ELSE [set |-> TRUE, inp |-> CurrentInput, out |-> result]
    /\ calls' = calls + 1
    /\ \E inp \in RepeatInputs : EnterDistribute(inp)
    /\ UNCHANGED <<analysis, objects>>

\* assess_variety(plan, dishes), called with any catalogue
AssessVariety ==
    /\ pc = "planned"
    /\ \E ds \in Catalogues \cup {LongCatalogue} :
         /\ catalogue' = ds
         /\ report' = assess_variety(plan, ds)
    /\ pc' = "assessed"
    /\ UNCHANGED <<args, locals, result, calls, first, plan, suggestions, objects>>

\* suggest_improvements(report, dishes), called with the report and the catalogue
\* of the assessment, as AnalysisService.get_suggestions does
SuggestImprovements ==
    /\ pc = "assessed"
    /\ suggestions' = suggest_improvements(report, catalogue)
    /\ pc' = "suggested"
    /\ UNCHANGED <<args, locals, result, calls, first, plan, catalogue, report, objects>>

\* PlanningService.create_plan, lines 161-180: the plan built from the result
\* of distribute_dishes
CreatePlan ==
    /\ pc = "done"
    /\ plan' = [i \in DOMAIN result.weeks |-> result.weeks[i]]
    /\ num_weeks' = weeks
    /\ call' = [NoCall EXCEPT !.op = "create_plan"]
    /\ pc' = "plan"
    /\ UNCHANGED <<args, locals, result, calls, first, catalogue, report, suggestions,
                   shortlist, before, returned, history>>

\* MealPlan.create(name, n)
CreateMealPlan ==
    /\ pc = "new"
    /\ \E n \in (-1)..MaxPlanWeeks :
         /\ plan' = create(n)
         /\ num_weeks' = n
    /\ call' = [NoCall EXCEPT !.op = "create"]
    /\ pc' = "plan"
    /\ UNCHANGED <<args, locals, result, calls, first, catalogue, report, suggestions,
                   shortlist, before, returned, history>>

\* assess_variety(plan, dishes) on the plan that create_plan returned, with the
\* dishes it was made from
AssessCreatedPlan ==
    /\ pc = "plan"
    /\ call.op = "create_plan"
    /\ catalogue' = dishes
    /\ report' = assess_variety(plan, dishes)
    /\ pc' = "assessed"
    /\ UNCHANGED <<args, locals, result, calls, first, plan, suggestions, objects>>

\* The plans a caller holds: the one last called on and the one last returned
PlansAtHand ==
    {plan} \cup (IF call.op = "with_week" /\ ~returned.raised
                 THEN {returned.value} ELSE {})

\* self.with_week(week_num, week).  The model is frozen and the method assigns
\* nothing to self, so the receiver is after the call what it was before.
WithWeek ==
    /\ pc = "plan"
    /\ \E self \in PlansAtHand, week_num \in WeekNums, week \in WeekChoices :
         /\ call' = [op |-> "with_week", week_num |-> week_num, week |-> week,
                     dish_uid |-> 0]
         /\ before' = self
         /\ returned' = with_week(self, week_num, week)
         /\ plan' = self
    /\ UNCHANGED <<args, locals, pc, result, calls, first, catalogue, report,
                   suggestions, num_weeks, shortlist, history>>

\* The shortlists a caller holds: the receiver of the last call and the one it
\* returned, which PlanningService keeps (services/planning.py, lines 94, 108,
\* 119), each with the calls that made it
ShortlistsAtHand ==
    {[dish_uids |-> shortlist, history |-> history]}
    \cup (IF call.op \in {"add", "remove", "clear"}
          THEN {[dish_uids |-> returned.value,
                 history   |-> Append(history, [op |-> call.op,
                                                dish_uid |-> call.dish_uid])]}
          ELSE {})

\* One call on a shortlist: op(self, dish_uid) gave ret
ShortlistCall(op, self, dish_uid, ret) ==
    /\ pc = "shortlist"
    /\ Len(self.history) < MaxOps
    /\ call' = [op |-> op, week_num |-> 0, week |-> <<>>, dish_uid |-> dish_uid]
    /\ before' = self.dish_uids
    /\ returned' = ret
    /\ shortlist' = self.dish_uids
    /\ history' = self.history
    /\ UNCHANGED <<args, locals, pc, result, calls, first, analysis, num_weeks>>

ShortlistAdd ==
    \E self \in ShortlistsAtHand, dish_uid \in ShortlistUids :
        ShortlistCall("add", self, dish_uid, add(self.dish_uids, dish_uid))

ShortlistRemove ==
    \E self \in ShortlistsAtHand, dish_uid \in ShortlistUids :
        ShortlistCall("remove", self, dish_uid, remove(self.dish_uids, dish_uid))

ShortlistClear ==
    \E self \in ShortlistsAtHand :
        ShortlistCall("clear", self, 0, clear(self.dish_uids))

----------------------------------------------------------------------------
(* Specifications *)

NoCallYet == [set |-> FALSE, inp |-> NoInput, out |-> EmptyResult]

\* One call of distribute_dishes, with any arguments
Init ==
    /\ \E inp \in Inputs : InitCall(inp)
    /\ pc = "week"
    /\ calls = 1
    /\ first = NoCallYet
    /\ plan = <<>>
    /\ catalogue = <<>>
    /\ report = EmptyReport
    /\ InitObjects

Next ==
    \/ BeginWeek
    \/ PickEastern
    \/ EndEastern
    \/ PickWestern
    \/ EndWestern
    \/ FillSlot
    \/ EndWeek
    \/ Finish

Spec == Init /\ [][Next]_vars

\* Up to MaxCalls calls of distribute_dishes, one after the other
InitRepeat ==
    /\ \E inp \in RepeatInputs : InitCall(inp)
    /\ pc = "week"
    /\ calls = 1
    /\ first = NoCallYet
    /\ plan = <<>>
    /\ catalogue = <<>>
    /\ report = EmptyReport
    /\ InitObjects

NextRepeat ==
    \/ BeginWeek
    \/ PickEastern
    \/ EndEastern
    \/ PickWestern
    \/ EndWestern
    \/ FillSlot
    \/ EndWeek
    \/ Finish
    \/ CallAgain

SpecRepeat == InitRepeat /\ [][NextRepeat]_vars

\* One call of distribute_dishes with any integers as parameters.  The call
\* runs in one thread that is never suspended for good: whenever a step of the
\* function is possible, one is taken.
InitTerminate ==
    /\ \E inp \in TerminationInputs : InitCall(inp)
    /\ pc = "week"
    /\ calls = 1
    /\ first = NoCallYet
    /\ plan = <<>>
    /\ catalogue = <<>>
    /\ report = EmptyReport
    /\ InitObjects

NextTerminate ==
    \/ BeginWeek
    \/ PickEastern
    \/ EndEastern
    \/ PickWestern
    \/ EndWestern
    \/ FillSlot
    \/ EndWeek
    \/ Finish

SpecTerminate == InitTerminate /\ [][NextTerminate]_vars /\ WF_vars(NextTerminate)

\* A plan, to be assessed
InitAnalysis ==
    /\ InitCall(NoInput)
    /\ pc = "planned"
    /\ calls = 0
    /\ first = NoCallYet
    /\ plan \in Plans \cup {LongPlan, RepeatedPlan}
    /\ catalogue = <<>>
    /\ report = EmptyReport
    /\ InitObjects

NextAnalysis == AssessVariety \/ SuggestImprovements

SpecAnalysis == InitAnalysis /\ [][NextAnalysis]_vars

\* A plan is constructed, by MealPlan.create or by PlanningService.create_plan,
\* and with_week is called on it and on the plans it returns.
InitPlan ==
    /\ \/ pc = "new" /\ InitCall(NoInput)
       \/ pc = "week" /\ \E inp \in PlanInputs : InitCall(inp)
    /\ calls = 1
    /\ first = NoCallYet
    /\ plan = <<>>
    /\ catalogue = <<>>
    /\ report = EmptyReport
    /\ InitObjects

NextPlan ==
    \/ BeginWeek
    \/ PickEastern
    \/ EndEastern
    \/ PickWestern
    \/ EndWestern
    \/ FillSlot
    \/ EndWeek
    \/ Finish
    \/ CreatePlan
    \/ CreateMealPlan
    \/ WithWeek

SpecPlan == InitPlan /\ [][NextPlan]_vars

\* create_plan, then assess_variety on its plan and its dishes
InitPipeline ==
    /\ \E inp \in Inputs : InitCall(inp)
    /\ pc = "week"
    /\ calls = 1
    /\ first = NoCallYet
    /\ plan = <<>>
    /\ catalogue = <<>>
    /\ report = EmptyReport
    /\ InitObjects

NextPipeline ==
    \/ BeginWeek
    \/ PickEastern
    \/ EndEastern
    \/ PickWestern
    \/ EndWestern
    \/ FillSlot
    \/ EndWeek
    \/ Finish
    \/ CreatePlan
    \/ AssessCreatedPlan

SpecPipeline == InitPipeline /\ [][NextPipeline]_vars

\* A shortlist is created empty; add, remove and clear are called on it and on
\* the shortlists they return.
InitShortlist ==
    /\ InitCall(NoInput)
    /\ pc = "shortlist"
    /\ calls = 0
    /\ first = NoCallYet
    /\ plan = <<>>
    /\ catalogue = <<>>
    /\ report = EmptyReport
    /\ InitObjects

NextShortlist == ShortlistAdd \/ ShortlistRemove \/ ShortlistClear

SpecShortlist == InitShortlist /\ [][NextShortlist]_vars

----------------------------------------------------------------------------
(* Properties *)

Done == pc = "done"

NoDuplicates(s) == \A i, j \in DOMAIN s : i # j => s[i] # s[j]

\* The number of times uid was placed, over all weeks of the result
Placements(uid) ==
    Cardinality(UNION { {<<w, i>> : i \in {j \in DOMAIN result.weeks[w] :
                                                result.weeks[w][j] = uid}} :
                        w \in DOMAIN result.weeks })

PlacedUids == UNION {SetOf(result.weeks[w]) : w \in DOMAIN result.weeks}

InputUids == {dishes[i].uid : i \in DOMAIN dishes}

\* The number of dishes of region r in the list of identifiers week
RegionCount(week, r) ==
    Cardinality({i \in DOMAIN week : region(dish_by_uid(dishes, week[i])) = r})

NumEastern == Cardinality({i \in DOMAIN dishes : region(dishes[i]) = EASTERN})

NumWestern == Cardinality({i \in DOMAIN dishes : region(dishes[i]) = WESTERN})

\* C1: no week of the result holds the same dish identifier twice.
\* (Violated: the quota steps fall back to the whole region without
\* excluding the dishes already in the week.)
C1_NoIntraWeekDuplicates ==
    Done => \A w \in DOMAIN result.weeks : NoDuplicates(result.weeks[w])

\* C2, as claimed: with at least one input dish no week has fewer than
\* per_week entries.
C2_NoShortWeekUnlessEmptyInput ==
    (Done /\ dishes # <<>>) =>
        \A w \in DOMAIN result.weeks : Len(result.weeks[w]) >= per_week

\* C2, amended: a week has fewer than per_week entries only when every input
\* dish is already in that week (which includes the empty input).
C2_ShortWeekHoldsEveryDish ==
    Done => \A w \in DOMAIN result.weeks :
                Len(result.weeks[w]) < per_week => InputUids \subseteq SetOf(result.weeks[w])

C2_Witness ==
    /\ Done
    /\ Len(dishes) = 1
    /\ weeks = 2
    /\ per_week = 2
    /\ result.weeks = << <<1>>, <<1>> >>

\* C3: every week has at most per_week entries, whatever the quotas; with
\* per_week = 0 every week is empty.
\* (Violated: the quota loops do not look at per_week.)
C3_AtMostPerWeek ==
    Done => \A w \in DOMAIN result.weeks : Len(result.weeks[w]) <= per_week

\* C4: the result has exactly `weeks` weeks, for every dish list and weeks >= 0.
C4_WeeksConserved ==
    (Done /\ weeks >= 0) => Len(result.weeks) = weeks

C4_Witness ==
    /\ Done
    /\ dishes = <<>>
    /\ weeks = 2
    /\ result.weeks = << <<>>, <<>> >>

\* C5: every input identifier is either placed in some week or listed in
\* discarded, never both, and discarded lists input identifiers only.
C5_DiscardPlacementPartition ==
    Done =>
        /\ PlacedUids \cap SetOf(result.discarded) = {}
        /\ PlacedUids \cup SetOf(result.discarded) = InputUids
        /\ SetOf(result.discarded) \subseteq InputUids

C5_Witness ==
    /\ Done
    /\ Len(result.weeks) = 2
    /\ result.weeks[1] # <<>>
    /\ SetOf(result.weeks[2]) \cap SetOf(result.weeks[1]) = {}
    /\ result.weeks[2] # <<>>
    /\ result.discarded # <<>>

\* C6: an identifier is in reused iff it was placed at least twice over all
\* weeks, and reused lists it once.
C6_ReusedIffPlacedTwice ==
    Done =>
        /\ \A u \in InputUids \cup SetOf(result.reused) :
              In(u, result.reused) <=> Placements(u) >= 2
        /\ NoDuplicates(result.reused)

C6_Witness ==
    /\ Done
    /\ \E u, v \in InputUids :
          /\ Placements(u) >= 2
          /\ In(u, result.reused)
          /\ Placements(v) = 1
          /\ ~In(v, result.reused)

\* C7: when the quotas add up to per_week and each region supplies at least
\* weeks * quota dishes, every week has exactly the quota of each region and
\* nothing is reused; with exactly weeks * quota dishes per region nothing is
\* discarded either.
C7_ExactQuotasWhenSupplied ==
    (/\ Done
     /\ eastern_per_week + western_per_week = per_week
     /\ NumEastern >= weeks * eastern_per_week
     /\ NumWestern >= weeks * western_per_week)
    =>
        /\ \A w \in DOMAIN result.weeks :
              /\ RegionCount(result.weeks[w], EASTERN) = eastern_per_week
              /\ RegionCount(result.weeks[w], WESTERN) = western_per_week
        /\ result.reused = <<>>
        /\ (NumEastern = weeks * eastern_per_week /\ NumWestern = weeks * western_per_week)
              => result.discarded = <<>>

C7_Witness ==
    /\ Done
    /\ dishes = EightDishes
    /\ weeks = 2 /\ per_week = 4 /\ eastern_per_week = 2 /\ western_per_week = 2
    /\ Len(result.weeks) = 2
    /\ result.discarded = <<>>

\* C8: one Eastern and one Western dish, per_week = 4, quotas 2 and 2,
\* weeks >= 2: every week holds both dishes, reused holds both identifiers,
\* discarded is empty.
C8_TwoDishesReusedEveryWeek ==
    (/\ Done
     /\ Len(dishes) = 2 /\ NumEastern = 1 /\ NumWestern = 1
     /\ per_week = 4 /\ eastern_per_week = 2 /\ western_per_week = 2
     /\ weeks >= 2)
    =>
        /\ \A w \in DOMAIN result.weeks : InputUids \subseteq SetOf(result.weeks[w])
        /\ SetOf(result.reused) = InputUids
        /\ result.discarded = <<>>

C8_Witness ==
    /\ Done
    /\ Len(dishes) = 2 /\ NumEastern = 1 /\ NumWestern = 1
    /\ per_week = 4 /\ eastern_per_week = 2 /\ western_per_week = 2
    /\ weeks = 3
    /\ Len(result.weeks) = 3

C10_ScoreBounds ==
    pc = "assessed" =>
        /\ report.variety_score \in 0..100
        /\ all_dish_uids(plan) = <<>> => report.variety_score = 100

C10_Witness ==
    /\ pc = "assessed"
    /\ \E u \in SetOf(all_dish_uids(plan)) : dish_by_uid(catalogue, u) = NoDish
    /\ \E u \in SetOf(all_dish_uids(plan)) : dish_by_uid(catalogue, u) # NoDish
    /\ report.variety_score > 0
    /\ report.variety_score < 100

Assessed == pc \in {"assessed", "suggested"}

\* The places of a plan: week and position
Entries == UNION { { <<w, i>> : i \in DOMAIN plan[w] } : w \in DOMAIN plan }

UidAt(e) == plan[e[1]][e[2]]

Occurrences(uid) == Cardinality({e \in Entries : UidAt(e) = uid})

\* The places whose identifier the catalogue holds
ResolvedEntries == {e \in Entries : \E i \in DOMAIN catalogue : catalogue[i].uid = UidAt(e)}

DishAt(e) == dish_by_uid(catalogue, UidAt(e))

\* Truncation of the sum of the three components, the sum taken exactly (as the
\* fraction num / den)
ExactScore(unique, total, c, e, w) ==
    LET hi == IF e + w = 0 THEN 1 ELSE Max(e, w)
        lo == IF e + w = 0 THEN 1 ELSE Min(e, w)
        den == total * 11 * hi
        num == 40 * unique * 11 * hi
               + Min(30 * 11, 30 * c) * total * hi
               + 30 * lo * total * 11
    IN  num \div den

\* C11: for a plan with at least one entry the variety score is
\* floor(40 * unique / total + min(30, 30 * c / 11) + B), with c the number of
\* distinct cuisines of the resolved dishes, B = 30 * min(e, w) / max(e, w) over
\* the Eastern and Western counts of the resolved dishes, and B = 30 when no
\* dish resolves.
C11_ScoreIsFloorOfSum ==
    (Assessed /\ Entries # {}) =>
        report.variety_score =
            ExactScore(Cardinality({UidAt(e) : e \in Entries}),
                       Cardinality(Entries),
                       Cardinality({DishAt(e).cuisine : e \in ResolvedEntries}),
                       Cardinality({e \in ResolvedEntries : region(DishAt(e)) = EASTERN}),
                       Cardinality({e \in ResolvedEntries : region(DishAt(e)) = WESTERN}))

\* C12: repeated_dishes holds exactly the identifiers that occur more than
\* twice in the plan, each with its number of occurrences; an identifier that
\* occurs once or twice is not in it.
C12_RepeatedAreThoseAboveTwo ==
    Assessed =>
        /\ \A i \in DOMAIN report.repeated_dishes :
              /\ Occurrences(report.repeated_dishes[i][1]) > 2
              /\ report.repeated_dishes[i][2] = Occurrences(report.repeated_dishes[i][1])
              /\ \A j \in DOMAIN report.repeated_dishes :
                    report.repeated_dishes[j][1] = report.repeated_dishes[i][1] => j = i
        /\ \A e \in Entries :
              Occurrences(UidAt(e)) > 2 =>
                  \E i \in DOMAIN report.repeated_dishes :
                      report.repeated_dishes[i][1] = UidAt(e)

C12_Witness ==
    /\ Assessed
    /\ \E e \in Entries : Occurrences(UidAt(e)) = 1
    /\ \E e \in Entries :
          /\ Occurrences(UidAt(e)) = 3
          /\ report.repeated_dishes = << <<UidAt(e), 3>> >>

\* C13: an identifier the catalogue does not hold is skipped: a report is made,
\* and its cuisine, region and category distributions count the occurrences
\* that resolve, and nothing else.
C13_MissingIdentifiersSkipped ==
    Assessed =>
        LET dish == [e \in ResolvedEntries |-> DishAt(e)]
            slots == UNION { { <<e, j>> : j \in DOMAIN dish[e].categories } :
                             e \in DOMAIN dish }
        IN  /\ \A c \in Cuisine \cup DOMAIN report.cuisine_distribution :
                  get0(report.cuisine_distribution, c) =
                      Cardinality({e \in DOMAIN dish : dish[e].cuisine = c})
            /\ \A r \in Region \cup DOMAIN report.region_distribution :
                  get0(report.region_distribution, r) =
                      Cardinality({e \in DOMAIN dish : region(dish[e]) = r})
            /\ \A c \in Category \cup DOMAIN report.category_distribution :
                  get0(report.category_distribution, c) =
                      Cardinality({x \in slots : dish[x[1]].categories[x[2]] = c})

C13_Witness ==
    /\ Assessed
    /\ Cardinality(Entries) = 4
    /\ Cardinality(ResolvedEntries) = 2
    /\ \E c \in DOMAIN report.cuisine_distribution : report.cuisine_distribution[c] = 2
    /\ \E c \in DOMAIN report.category_distribution : report.category_distribution[c] = 4

SuggestionsOf(kind) == {i \in DOMAIN suggestions : suggestions[i].kind = kind}

KnownUid(uid) == \E i \in DOMAIN catalogue : catalogue[i].uid = uid

RepetitionsFor(entry) ==
    {i \in SuggestionsOf("repetition") :
        suggestions[i].uid = entry[1] /\ suggestions[i].count = entry[2]}

\* C17 as stated: every entry of report.repeated_dishes gets one repetition
\* suggestion with the dish and its count, so there are as many repetition
\* suggestions as repeated dishes.
C17_OneSuggestionPerRepeatedDish ==
    pc = "suggested" =>
        /\ \A i \in DOMAIN report.repeated_dishes :
              Cardinality(RepetitionsFor(report.repeated_dishes[i])) = 1
        /\ Cardinality(SuggestionsOf("repetition")) = Len(report.repeated_dishes)

\* C17, amended: every entry of report.repeated_dishes whose identifier is in
\* the dishes given gets one repetition suggestion with the dish and its count,
\* an entry whose identifier is not among them gets none, so there are as many
\* repetition suggestions as repeated dishes that are found.
C17_OneSuggestionPerKnownRepeatedDish ==
    pc = "suggested" =>
        /\ \A i \in DOMAIN report.repeated_dishes :
              Cardinality(RepetitionsFor(report.repeated_dishes[i])) =
                  IF KnownUid(report.repeated_dishes[i][1]) THEN 1 ELSE 0
        /\ Cardinality(SuggestionsOf("repetition")) =
              Cardinality({i \in DOMAIN report.repeated_dishes :
                             KnownUid(report.repeated_dishes[i][1])})

C17_Witness ==
    /\ pc = "suggested"
    /\ Len(report.repeated_dishes) = 2
    /\ KnownUid(report.repeated_dishes[1][1])
    /\ ~KnownUid(report.repeated_dishes[2][1])
    /\ Cardinality(SuggestionsOf("repetition")) = 1

\* C18: there is a region warning exactly when both regions have dishes and
\* the larger count is more than twice the smaller one; it names the larger
\* region.
C18_RegionWarningIffMoreThanDouble ==
    pc = "suggested" =>
        LET e == get0(report.region_distribution, EASTERN)
            w == get0(report.region_distribution, WESTERN)
            warn == e > 0 /\ w > 0 /\ Max(e, w) > 2 * Min(e, w)
        IN  /\ Cardinality(SuggestionsOf("region")) = IF warn THEN 1 ELSE 0
            /\ \A i \in SuggestionsOf("region") :
                  suggestions[i].dominant = IF e > w THEN "Eastern" ELSE "Western"

C18_Witness ==
    /\ pc = "suggested"
    /\ get0(report.region_distribution, EASTERN) = 1
    /\ get0(report.region_distribution, WESTERN) = 3
    /\ \E i \in SuggestionsOf("region") : suggestions[i].dominant = "Western"

\* C19: there is a low-cuisine-variety warning exactly when the report has
\* fewer than 3 distinct cuisines, whatever the score and the other messages;
\* an empty plan (score 100, no cuisine) gets it.
C19_FewCuisinesWarningIffBelowThree ==
    pc = "suggested" =>
        Cardinality(SuggestionsOf("cuisines")) =
            IF Cardinality(DOMAIN report.cuisine_distribution) < 3 THEN 1 ELSE 0

C19_Witness ==
    /\ pc = "suggested"
    /\ Entries = {}
    /\ report.variety_score = 100
    /\ suggestions = << Suggestion("cuisines", 0, 0, 0, "") >>

\* C20: "variety is low" is given exactly when the score is below 50, "room
\* for improvement" exactly when it is from 50 to 69, so at most one of the
\* two, and none for a score of 70 or more.
C20_AtMostOneScoreMessage ==
    pc = "suggested" =>
        /\ Cardinality(SuggestionsOf("low")) =
              IF report.variety_score < 50 THEN 1 ELSE 0
        /\ Cardinality(SuggestionsOf("room")) =
              IF report.variety_score >= 50 /\ report.variety_score < 70 THEN 1 ELSE 0

C20_Witness ==
    /\ pc = "suggested"
    /\ report.variety_score >= 50
    /\ report.variety_score < 70
    /\ SuggestionsOf("room") # {}
    /\ SuggestionsOf("low") = {}

\* C14: with_week raises and returns no plan for every week_num outside
\* 1..num_weeks, 0 and negative numbers included; for a week_num inside it
\* returns a plan that has week at week_num and the weeks of the receiver
\* everywhere else; the receiver is unchanged.
C14_WithWeekChecksRange ==
    call.op = "with_week" =>
        /\ plan = before
        /\ IF call.week_num \in 1..Len(before)
           THEN /\ ~returned.raised
                /\ Len(returned.value) = Len(before)
                /\ returned.value[call.week_num] = call.week
                /\ \A i \in 1..Len(before) :
                      i # call.week_num => returned.value[i] = before[i]
           ELSE /\ returned.raised
                /\ returned.value = <<>>

C14_Witness ==
    /\ call.op = "with_week"
    /\ call.week_num = 0
    /\ Len(before) = 2
    /\ before[2] # <<>>
    /\ returned.raised

\* C15 as stated: a plan constructed with n weeks has exactly n weeks, and so
\* has every plan that with_week returns.
C15_ExactlyNWeeks ==
    pc = "plan" =>
        /\ Len(plan) = num_weeks
        /\ (call.op = "with_week" /\ ~returned.raised) => Len(returned.value) = num_weeks

\* C15, amended: a plan constructed with n >= 0 weeks has exactly n weeks, one
\* constructed with a negative n has no week, and every plan that with_week
\* returns has as many weeks as the plan constructed.
C15_WeeksFixedAtConstruction ==
    pc = "plan" =>
        /\ Len(plan) = Max(num_weeks, 0)
        /\ (call.op = "with_week" /\ ~returned.raised) =>
              Len(returned.value) = Max(num_weeks, 0)

C15_Witness ==
    /\ pc = "plan"
    /\ num_weeks = 2
    /\ call.op = "with_week"
    /\ returned.raised
    /\ plan # create(2)

\* C16: add of an identifier that is present and remove of one that is absent
\* return a shortlist equal to the receiver, clear returns the empty
\* shortlist, no call raises, and the receiver is unchanged.
C16_ShortlistOperationsTotal ==
    call.op \in {"add", "remove", "clear"} =>
        /\ ~returned.raised
        /\ shortlist = before
        /\ (call.op = "add" /\ In(call.dish_uid, before)) => returned.value = before
        /\ (call.op = "remove" /\ ~In(call.dish_uid, before)) => returned.value = before
        /\ call.op = "clear" => returned.value = <<>>

C16_Witness ==
    /\ call.op = "add"
    /\ Len(before) = 2
    /\ In(call.dish_uid, before)
    /\ returned.value = before

----------------------------------------------------------------------------
(* The picks of distribute_dishes, one step at a time *)

\* A step that places a dish: an iteration of a quota loop or of the fill loop
Pick == PickEastern \/ PickWestern \/ FillSlot

\* The identifier placed by the step
PlacedNow == week_state'.dish_uids[Len(week_state'.dish_uids)]

\* The pool of the step being taken
PoolNow ==
    IF pc = "eastern" THEN eastern_pool
    ELSE IF pc = "western" THEN western_pool
    ELSE fill_pool

\* The identifiers of the week before the one being built
PreviousWeek == IF week_results = <<>> THEN {} ELSE SetOf(week_results[Len(week_results)])

\* Position of an identifier in the input
InputPosition(uid) == CHOOSE i \in DOMAIN dishes : dishes[i].uid = uid

\* The score, in half points, as the sum of its three terms
HalfPoints(d) ==
    2 * Cardinality(SetOf(d.categories) \ week_state.categories_used)
      + (IF d.cuisine \in week_state.cuisines_used THEN 0 ELSE 1)
      - (IF d.uid \in PreviousWeek THEN 2 ELSE 0)

\* C21: every dish placed by a quota step or by the fill step has the maximal
\* score among the candidates of the pool of that pick (new categories, plus
\* 0.5 for a new cuisine, minus 1.0 if placed in the previous week), and among
\* the candidates of maximal score it is the first in the input order.
C21_PlacedDishIsFirstOfMaximalScore ==
    [][Pick =>
        \E i \in DOMAIN PoolNow :
            /\ PoolNow[i].uid = PlacedNow
            /\ \A h \in DOMAIN PoolNow :
                  /\ HalfPoints(PoolNow[h]) <= HalfPoints(PoolNow[i])
                  /\ (HalfPoints(PoolNow[h]) = HalfPoints(PoolNow[i]))
                        => InputPosition(PoolNow[i].uid) <= InputPosition(PoolNow[h].uid)]_vars

\* Two dishes with the same score were candidates and the first was placed
C21_Witness ==
    /\ pc = "eastern"
    /\ week_idx = 0
    /\ Len(dishes) >= 2
    /\ dishes[1].cuisine = dishes[2].cuisine
    /\ dishes[1].categories = dishes[2].categories
    /\ IsEastern(dishes[1])
    /\ week_state.dish_uids = <<dishes[1].uid>>

\* The dish of the input with this identifier
InputDish(uid) == dishes[InputPosition(uid)]

\* The identifier was placed before, in this week or in an earlier one
AlreadyPlaced(uid) == dict_get(used_count, uid) > 0

\* The dishes the step may draw from: the region's dishes for a quota step,
\* the whole input for the fill step
StepDishes ==
    IF pc = "eastern" THEN {i \in DOMAIN dishes : region(dishes[i]) = EASTERN}
    ELSE IF pc = "western" THEN {i \in DOMAIN dishes : region(dishes[i]) = WESTERN}
    ELSE DOMAIN dishes

\* C22: a quota step or the fill step places a dish that was already placed
\* only when every dish it may draw from was already placed; hence a region
\* with a dish in reused has no dish in discarded.
C22_ReuseOnlyWhenNothingFresh ==
    [][/\ Pick =>
            (AlreadyPlaced(PlacedNow)
                => \A i \in StepDishes : AlreadyPlaced(dishes[i].uid))
       /\ Finish =>
            \A r \in Region :
                (\E i \in DOMAIN result'.reused :
                    region(InputDish(result'.reused[i])) = r)
                => ~(\E j \in DOMAIN result'.discarded :
                        region(InputDish(result'.discarded[j])) = r)]_vars

\* A dish of one region is reused while a dish of the other is discarded
C22_Witness ==
    /\ Done
    /\ \E i \in DOMAIN result.reused : \E j \in DOMAIN result.discarded :
          region(InputDish(result.reused[i])) # region(InputDish(result.discarded[j]))

\* C23: while week k is built, recently_used is the set of the identifiers
\* placed in week k-1, empty for the first week; a dish that is not in week
\* k-1 carries no penalty, however often it was placed before.
C23_RecentlyUsedIsPreviousWeek ==
    pc \in {"eastern", "western", "fill"} =>
        /\ Len(week_results) = week_idx
        /\ recently_used = PreviousWeek
        /\ week_idx = 0 => recently_used = {}
        /\ \A i \in DOMAIN dishes :
              dishes[i].uid \notin PreviousWeek
                  => score_dish(dishes[i], week_state, recently_used)
                        = 2 * Cardinality(SetOf(dishes[i].categories)
                                              \ week_state.categories_used)
                            + (IF dishes[i].cuisine \in week_state.cuisines_used
                               THEN 0 ELSE 1)

\* The third week places the dish of the first week, which the second left out
C23_Witness ==
    /\ pc = "fill"
    /\ week_idx = 2
    /\ \E u \in SetOf(week_results[1]) \ SetOf(week_results[2]) :
          /\ AlreadyPlaced(u)
          /\ u \notin recently_used
          /\ week_state.dish_uids = <<u>>

\* The fill step has a candidate: a dish of its base pool that is not in the week
FillCandidates ==
    LET base == IF \E i \in DOMAIN dishes : ~AlreadyPlaced(dishes[i].uid)
                THEN {i \in DOMAIN dishes : ~AlreadyPlaced(dishes[i].uid)}
                ELSE DOMAIN dishes
    IN  {i \in base : ~In(dishes[i].uid, week_state.dish_uids)}

\* C24: the fill step never places an identifier that is already in the week
\* being built, from the never-placed pool or from the reuse fallback, and it
\* stops when the week is full or no such candidate is left.
C24_FillPlacesNothingTwice ==
    [][/\ FillSlot =>
            /\ ~In(PlacedNow, week_state.dish_uids)
            /\ PlacedNow \in {dishes[i].uid : i \in FillCandidates}
       /\ EndWeek =>
            (Len(week_state.dish_uids) >= per_week \/ FillCandidates = {})]_vars

\* The reuse fallback has filled a slot with a dish placed in an earlier week
C24_Witness ==
    /\ pc = "fill"
    /\ available_all = <<>>
    /\ Len(week_state.dish_uids) >= 2
    /\ NoDuplicates(week_state.dish_uids)
    /\ week_idx >= 1
    /\ \E u \in SetOf(week_state.dish_uids) :
          /\ dict_get(used_count, u) >= 2
          /\ IsEastern(InputDish(u))
          /\ eastern_per_week = 0

C26_DistributeTerminates ==
    /\ <>Done
    /\ [][FillSlot =>
            Len(week_state'.dish_uids) = Len(week_state.dish_uids) + 1]_vars

\* A call with a negative parameter has returned, after fill steps
C26_Witness ==
    /\ Done
    /\ eastern_per_week < 0
    /\ western_per_week < 0
    /\ weeks = 2
    /\ per_week = 2
    /\ \A w \in DOMAIN result.weeks : Len(result.weeks[w]) = 2

\* A call with a negative number of weeks or of dishes per week has returned
C26_NegativeWitness ==
    /\ Done
    /\ (weeks < 0 \/ per_week < 0)
    /\ dishes # <<>>

----------------------------------------------------------------------------
(* Reports of assess_variety, continued *)

\* C27: each resolved occurrence of a dish adds exactly 1 to the category
\* bucket of each distinct category of the dish, and nothing to the others.
C27_CategoryCountsOncePerOccurrence ==
    Assessed =>
        LET res == ResolvedEntries IN
        \A c \in Category :
            get0(report.category_distribution, c)
                = Cardinality({e \in res : c \in SetOf(DishAt(e).categories)})

\* The sum of the values of a dict
RECURSIVE SumOver(_, _)
SumOver(f, keys) ==
    IF keys = {} THEN 0
    ELSE LET key == CHOOSE x \in keys : TRUE
         IN  f[key] + SumOver(f, keys \ {key})

SumOf(f) == SumOver(f, DOMAIN f)

\* C28: total_dish_count, unique_dish_count and repeated_dishes count every
\* identifier occurrence of the plan, resolved or not; the cuisine and region
\* distributions both sum to the number of resolved occurrences, which is at
\* most total_dish_count; unique_dish_count is at most total_dish_count.
C28_CountsAllDistributionsResolved ==
    Assessed =>
        LET all == Entries
            res == ResolvedEntries
            uids == {UidAt(e) : e \in all}
        IN  /\ report.total_dish_count = Cardinality(all)
            /\ report.unique_dish_count = Cardinality(uids)
            /\ {entry[1] : entry \in SetOf(report.repeated_dishes)}
                  = {u \in uids : Cardinality({e \in all : UidAt(e) = u}) > 2}
            /\ SumOf(report.cuisine_distribution) = Cardinality(res)
            /\ SumOf(report.region_distribution) = Cardinality(res)
            /\ Cardinality(res) <= report.total_dish_count
            /\ report.unique_dish_count <= report.total_dish_count

\* An identifier that the catalogue does not hold is repeated three times next
\* to one that resolves
C28_Witness ==
    /\ Assessed
    /\ Cardinality(Entries) = 4
    /\ Cardinality(ResolvedEntries) = 1
    /\ report.unique_dish_count = 2
    /\ \E i \in DOMAIN report.repeated_dishes :
          /\ ~KnownUid(report.repeated_dishes[i][1])
          /\ report.repeated_dishes[i][2] = 3
    /\ SumOf(report.region_distribution) = 1

----------------------------------------------------------------------------
(* The shortlist as a set *)

\* The set that the calls of h make out of the empty set
RECURSIVE AbstractSet(_)
AbstractSet(h) ==
    IF h = <<>> THEN {}
    ELSE LET front == AbstractSet(SubSeq(h, 1, Len(h) - 1))
             last == h[Len(h)]
         IN  IF last.op = "add" THEN front \cup {last.dish_uid}
             ELSE IF last.op = "remove" THEN front \ {last.dish_uid}
             ELSE {}

\* The calls of h that put uid into the set: add of an identifier that was absent
Insertions(h, uid) ==
    {t \in DOMAIN h : /\ h[t].op = "add"
                      /\ h[t].dish_uid = uid
                      /\ uid \notin AbstractSet(SubSeq(h, 1, t - 1))}

LatestInsertion(h, uid) ==
    CHOOSE t \in Insertions(h, uid) : \A u \in Insertions(h, uid) : u <= t

\* dish_uids is the set made by h: no identifier twice, the same members, the
\* same size, in the order of the latest insertions
Refines(dish_uids, h) ==
    LET set == AbstractSet(h) IN
    /\ NoDuplicates(dish_uids)
    /\ \A uid \in ShortlistUids : In(uid, dish_uids) <=> uid \in set
    /\ Len(dish_uids) = Cardinality(set)
    /\ \A i, j \in DOMAIN dish_uids :
          i < j => LatestInsertion(h, dish_uids[i]) < LatestInsertion(h, dish_uids[j])

\* C29: after any sequence of add, remove and clear from the empty shortlist,
\* dish_uids holds no identifier twice, contains exactly the members of the
\* set made by the same calls, has its size, and lists the identifiers in the
\* order in which they last entered the set.
C29_ShortlistRefinesSet ==
    \A s \in (IF pc = "shortlist" THEN ShortlistsAtHand ELSE {}) :
        Refines(s.dish_uids, s.history)

\* An identifier that was removed and added again stands behind the others
C29_Witness ==
    /\ pc = "shortlist"
    /\ call.op = "add"
    /\ \E a, b \in ShortlistUids :
          /\ a # b
          /\ history = << [op |-> "add", dish_uid |-> a], [op |-> "add", dish_uid |-> b],
                          [op |-> "remove", dish_uid |-> a] >>
          /\ call.dish_uid = a
          /\ returned.value = <<b, a>>

----------------------------------------------------------------------------
(* The report of a plan and the result it was built from *)

\* The sum of the lengths of the weeks
RECURSIVE SumOfLengths(_)
SumOfLengths(ws) ==
    IF ws = <<>> THEN 0
    ELSE Len(ws[Len(ws)]) + SumOfLengths(SubSeq(ws, 1, Len(ws) - 1))

\* C30: the report of a plan built by create_plan, assessed against the dishes
\* it was built from, agrees with the DistributionResult: total_dish_count is
\* the sum of the week lengths, unique_dish_count is the number of input
\* dishes minus len(discarded), and every repeated dish is in reused.
C30_ReportAgreesWithResult ==
    (pc = "assessed" /\ call.op = "create_plan") =>
        /\ report.total_dish_count = SumOfLengths(result.weeks)
        /\ report.unique_dish_count = Len(dishes) - Len(result.discarded)
        /\ \A i \in DOMAIN report.repeated_dishes :
              In(report.repeated_dishes[i][1], result.reused)

\* One dish placed three times, the other discarded
C30_Witness ==
    /\ pc = "assessed"
    /\ call.op = "create_plan"
    /\ Len(dishes) = 2
    /\ Len(result.discarded) = 1
    /\ report.unique_dish_count = 1
    /\ \E i \in DOMAIN report.repeated_dishes : report.repeated_dishes[i][2] >= 3
    /\ report.total_dish_count = 4

====
